---------------------------- MODULE Spec2Model ----------------------------
(***************************************************************************)
(* A model of scripts/refactor_types.py: the line classifier, the          *)
(* occurrence locator with its context filter, the rewrite engine, the     *)
(* declaration scanner and the driver loop of main().                      *)
(*                                                                         *)
(* Text is modelled as TLA+ strings; the regular expressions of the script *)
(* are computed character by character on them.                            *)
(***************************************************************************)
EXTENDS Integers, Sequences, FiniteSets, TLC

(***************************************************************************)
(* Characters and the character classes of Python's re module (ASCII).     *)
(***************************************************************************)
Char(s, i) == IF i >= 1 /\ i <= Len(s) THEN SubSeq(s, i, i) ELSE ""

WordChars ==
    { "a","b","c","d","e","f","g","h","i","j","k","l","m",
      "n","o","p","q","r","s","t","u","v","w","x","y","z",
      "A","B","C","D","E","F","G","H","I","J","K","L","M",
      "N","O","P","Q","R","S","T","U","V","W","X","Y","Z",
      "0","1","2","3","4","5","6","7","8","9","_" }

SpaceChars == { " ", "\t", "\r", "\f" }

IsWordChar(c) == c \in WordChars

IsSpace(c) == c \in SpaceChars

\* lit occurs in s starting at index i (1-based)
LitAt(lit, s, i) ==
    /\ i >= 1
    /\ i + Len(lit) - 1 <= Len(s)
    /\ SubSeq(s, i, i + Len(lit) - 1) = lit

\* Python's  lit in s
Contains(s, lit) == \E i \in 1..(Len(s) + 1) : LitAt(lit, s, i)

\* the regex assertion \b holds in front of the character at index i
\* (i = Len(s)+1 is the end of the text)
WordBoundary(s, i) == IsWordChar(Char(s, i - 1)) # IsWordChar(Char(s, i))

\* the least element of a nonempty set of indices
Least(S) == CHOOSE i \in S : \A j \in S : i <= j

\* the greatest element of a nonempty set of indices
Greatest(S) == CHOOSE i \in S : \A j \in S : i >= j

(***************************************************************************)
(* TYPE_MAPPINGS: the dict in insertion order.  text is the pattern between *)
(* its two \b assertions; len(pattern) counts the four characters of the   *)
(* two \b as well.                                                         *)
(***************************************************************************)
TYPE_MAPPINGS ==
    << [text |-> "int",                repl |-> "cforge_int_t"],
       [text |-> "unsigned int",       repl |-> "cforge_uint_t"],
       [text |-> "signed int",         repl |-> "cforge_int_t"],
       [text |-> "unsigned char",      repl |-> "cforge_byte_t"],
       [text |-> "signed char",        repl |-> "cforge_sbyte_t"],
       [text |-> "unsigned short",     repl |-> "cforge_ushort_t"],
       [text |-> "signed short",       repl |-> "cforge_short_t"],
       [text |-> "unsigned long long", repl |-> "cforge_ulong_t"],
       [text |-> "signed long long",   repl |-> "cforge_long_t"],
       [text |-> "long long",          repl |-> "cforge_long_t"],
       [text |-> "float",              repl |-> "cforge_float_t"],
       [text |-> "double",             repl |-> "cforge_double_t"],
       [text |-> "long double",        repl |-> "cforge_ldouble_t"],
       [text |-> "size_t",             repl |-> "cforge_size_t"] >>

PatternLen(m) == Len(m.text) + 4

(***************************************************************************)
(* SKIP_PATTERNS: every one is a literal, except  using\s+  which is the   *)
(* literal followed by at least one whitespace character.                  *)
(***************************************************************************)
SKIP_PATTERNS ==
    << [lit |-> "#include",          ws |-> FALSE],
       [lit |-> "#define",           ws |-> FALSE],
       [lit |-> "typedef",           ws |-> FALSE],
       [lit |-> "using",             ws |-> TRUE],
       [lit |-> "static_cast<",      ws |-> FALSE],
       [lit |-> "dynamic_cast<",     ws |-> FALSE],
       [lit |-> "reinterpret_cast<", ws |-> FALSE],
       [lit |-> "const_cast<",       ws |-> FALSE],
       [lit |-> "std::",             ws |-> FALSE],
       [lit |-> "fmt::",             ws |-> FALSE],
       [lit |-> "toml::",            ws |-> FALSE],
       [lit |-> "cforge_",           ws |-> FALSE] >>

\* a classifier that looks for the marker at the start of the line only
\* (re.match in the place of re.search)
SkipSearchAtStart(p, line) ==
    /\ LitAt(p.lit, line, 1)
    /\ p.ws => IsSpace(Char(line, 1 + Len(p.lit)))

\* re.search(pattern, line) for a skip pattern
SkipSearch(p, line) ==
    \E i \in 1..(Len(line) + 1) :
        /\ LitAt(p.lit, line, i)
        /\ p.ws => IsSpace(Char(line, i + Len(p.lit)))

should_skip_line(line) ==
    \E k \in 1..Len(SKIP_PATTERNS) : SkipSearch(SKIP_PATTERNS[k], line)

(***************************************************************************)
(* The type patterns  \btext\b : matching, finditer and sub.               *)
(***************************************************************************)
\* the pattern without its two \b
TypeMatchAnywhere(text, line, i) == LitAt(text, line, i)

\* the pattern \btext\b matches at index i of line
TypeMatchAt(text, line, i) ==
    /\ LitAt(text, line, i)
    /\ WordBoundary(line, i)
    /\ WordBoundary(line, i + Len(text))

\* re.search(pattern, line)
TypeSearch(text, line) == \E i \in 1..Len(line) : TypeMatchAt(text, line, i)

\* the indices from i on where the pattern matches
MatchesFrom(text, line, i) ==
    { j \in i..Len(line) : TypeMatchAt(text, line, j) }

\* re.finditer: the start indices of the non-overlapping matches, leftmost
\* first; the scan goes on behind each match
RECURSIVE FinditerFrom(_, _, _)
FinditerFrom(text, line, i) ==
    LET M == MatchesFrom(text, line, i)
    IN  IF M = {} THEN << >>
        ELSE << Least(M) >> \o FinditerFrom(text, line, Least(M) + Len(text))

Finditer(text, line) == FinditerFrom(text, line, 1)

\* re.sub(pattern, replacement, line)
RECURSIVE SubFrom(_, _, _, _)
SubFrom(text, repl, line, i) ==
    LET M == MatchesFrom(text, line, i)
    IN  IF M = {} THEN SubSeq(line, i, Len(line))
        ELSE SubSeq(line, i, Least(M) - 1) \o repl
             \o SubFrom(text, repl, line, Least(M) + Len(text))

Sub(text, repl, line) == SubFrom(text, repl, line, 1)


(***************************************************************************)
(* str.split('\n') and '\n'.join                                           *)
(***************************************************************************)
RECURSIVE SplitFrom(_, _)
SplitFrom(content, start) ==
    LET N == { j \in start..Len(content) : Char(content, j) = "\n" }
    IN  IF N = {} THEN << SubSeq(content, start, Len(content)) >>
        ELSE << SubSeq(content, start, Least(N) - 1) >>
             \o SplitFrom(content, Least(N) + 1)

Split(content) == SplitFrom(content, 1)

RECURSIVE Join(_)
Join(lines) ==
    IF Len(lines) = 0 THEN ""
    ELSE IF Len(lines) = 1 THEN lines[1]
    ELSE lines[1] \o "\n" \o Join(Tail(lines))

(***************************************************************************)
(* sorted(TYPE_MAPPINGS.items(), key=lambda x: len(x[0]), reverse=True):   *)
(* a stable sort, so equal lengths keep the order of the dict.             *)
(***************************************************************************)
\* m goes behind every element at least as long as it is
RECURSIVE InsertSorted(_, _)
InsertSorted(m, sorted) ==
    IF Len(sorted) = 0 THEN << m >>
    ELSE IF PatternLen(Head(sorted)) >= PatternLen(m)
         THEN << Head(sorted) >> \o InsertSorted(m, Tail(sorted))
         ELSE << m >> \o sorted

\* the sort without reverse=True: shortest pattern first
RECURSIVE InsertAscending(_, _)
InsertAscending(m, sorted) ==
    IF Len(sorted) = 0 THEN << m >>
    ELSE IF PatternLen(Head(sorted)) <= PatternLen(m)
         THEN << Head(sorted) >> \o InsertAscending(m, Tail(sorted))
         ELSE << m >> \o sorted

RECURSIVE SortAscending(_, _)
SortAscending(items, k) ==
    IF k = 0 THEN << >>
    ELSE InsertAscending(items[k], SortAscending(items, k - 1))

RECURSIVE SortMappings(_, _)
SortMappings(items, k) ==
    IF k = 0 THEN << >>
    ELSE InsertSorted(items[k], SortMappings(items, k - 1))

sorted_mappings == SortMappings(TYPE_MAPPINGS, Len(TYPE_MAPPINGS))

(***************************************************************************)
(* replace_types_in_file, lines 262-282: the rewrite of one line, and of   *)
(* the whole content.  acc is [line, changes].                             *)
(***************************************************************************)
\* a counter that goes up by one for every occurrence replaced
ApplyMappingPerOccurrence(m, acc) ==
    IF ~TypeSearch(m.text, acc.line) THEN acc
    ELSE IF Contains(acc.line, "std::") THEN acc
    ELSE [line    |-> Sub(m.text, m.repl, acc.line),
          changes |-> acc.changes + Len(Finditer(m.text, acc.line))]

\* one turn of the loop over sorted_mappings
ApplyMapping(m, acc) ==
    IF ~TypeSearch(m.text, acc.line) THEN acc
    ELSE IF Contains(acc.line, "std::") THEN acc
    ELSE LET new_line == Sub(m.text, m.repl, acc.line)
         IN  [line    |-> new_line,
              changes |-> IF new_line # acc.line THEN acc.changes + 1
                          ELSE acc.changes]

RECURSIVE ApplyMappings(_, _, _)
ApplyMappings(mappings, k, acc) ==
    IF k > Len(mappings) THEN acc
    ELSE ApplyMappings(mappings, k + 1, ApplyMapping(mappings[k], acc))

\* the body of the loop over the lines, for one line
RewriteLine(line) ==
    IF should_skip_line(line) THEN [line |-> line, changes |-> 0]
    ELSE ApplyMappings(sorted_mappings, 1, [line |-> line, changes |-> 0])

\* a loop that counts the changes but appends the line it read
RECURSIVE RewriteLinesKeepingLine(_, _)
RewriteLinesKeepingLine(lines, k) ==
    IF k = 0 THEN [new_lines |-> << >>, changes |-> 0]
    ELSE LET done == RewriteLinesKeepingLine(lines, k - 1)
             r    == RewriteLine(lines[k])
         IN  [new_lines |-> Append(done.new_lines, lines[k]),
              changes   |-> done.changes + r.changes]

RECURSIVE RewriteLines(_, _)
RewriteLines(lines, k) ==
    IF k = 0 THEN [new_lines |-> << >>, changes |-> 0]
    ELSE LET done == RewriteLines(lines, k - 1)
             r    == RewriteLine(lines[k])
         IN  [new_lines |-> Append(done.new_lines, r.line),
              changes   |-> done.changes + r.changes]

\* content -> new_content and the change counter
RewriteContent(content) ==
    LET lines == Split(content)
        r     == RewriteLines(lines, Len(lines))
    IN  [new_content |-> Join(r.new_lines), changes |-> r.changes]

(***************************************************************************)
(* find_bare_types: the occurrences the report lists.                      *)
(***************************************************************************)
\* lines 85-94: the context filter; TRUE when the match at index i is kept
ContextAccepts(text, line, i) ==
    LET before == SubSeq(line, 1, i - 1)
        last20 == SubSeq(before, Len(before) - 19, Len(before))
    IN  /\ ~(Contains(before, "<") /\ ~Contains(before, ">"))
        /\ ~Contains(IF Len(before) <= 20 THEN before ELSE last20, "cforge_")

RECURSIVE MatchesOf(_, _, _, _, _)
MatchesOf(m, line, line_num, starts, k) ==
    IF k > Len(starts) THEN << >>
    ELSE (IF ContextAccepts(m.text, line, starts[k])
          THEN << [line_num |-> line_num, match |-> m.text,
                   replacement |-> m.repl, start |-> starts[k]] >>
          ELSE << >>)
         \o MatchesOf(m, line, line_num, starts, k + 1)

RECURSIVE BareTypesOfLine(_, _, _)
BareTypesOfLine(line, line_num, k) ==
    IF k > Len(TYPE_MAPPINGS) THEN << >>
    ELSE MatchesOf(TYPE_MAPPINGS[k], line, line_num,
                   Finditer(TYPE_MAPPINGS[k].text, line), 1)
         \o BareTypesOfLine(line, line_num, k + 1)

RECURSIVE BareTypesOfLines(_, _)
BareTypesOfLines(lines, k) ==
    IF k = 0 THEN << >>
    ELSE BareTypesOfLines(lines, k - 1)
         \o (IF should_skip_line(lines[k]) THEN << >>
             ELSE BareTypesOfLine(lines[k], k, 1))

find_bare_types(content) ==
    LET lines == Split(content) IN BareTypesOfLines(lines, Len(lines))

(***************************************************************************)
(* Regular expressions anchored at the start of a text (re.match), as the  *)
(* set of indices a prefix of the expression can end in front of: every    *)
(* way the backtracking matcher can take is in the set.                    *)
(***************************************************************************)
InClass(c, cls) ==
    CASE cls = "s"        -> IsSpace(c)
      [] cls = "w"        -> IsWordChar(c)
      [] cls = "notparen" -> c # "" /\ c # ")"
      [] OTHER            -> FALSE

\* a literal
AfterLit(s, P, lit) == { q + Len(lit) : q \in { p \in P : LitAt(lit, s, p) } }

\* cls+ (min = 1) and cls* (min = 0)
AfterMany(s, P, cls, min) ==
    { e \in 1..(Len(s) + 1) :
        \E p \in P : /\ e - p >= min
                     /\ \A i \in p..(e - 1) : InClass(Char(s, i), cls) }

\* one character of a set, as in [{;]
AfterOneOf(s, P, chars) == { q + 1 : q \in { p \in P : Char(s, p) \in chars } }

\* (lit\s+)?
AfterOptWord(s, P, lit) == P \cup AfterMany(s, AfterLit(s, P, lit), "s", 1)

\* ^class\s+\w+\s*[{;]
MatchClass(s) ==
    AfterOneOf(s, AfterMany(s, AfterMany(s, AfterMany(s,
        AfterLit(s, {1}, "class"), "s", 1), "w", 1), "s", 0), {"{", ";"}) # {}

\* ^struct\s+\w+\s*;
MatchStruct(s) ==
    AfterLit(s, AfterMany(s, AfterMany(s, AfterMany(s,
        AfterLit(s, {1}, "struct"), "s", 1), "w", 1), "s", 0), ";") # {}

\* ^enum\s+(class\s+)?\w+\s*[{;]
MatchEnum(s) ==
    AfterOneOf(s, AfterMany(s, AfterMany(s,
        AfterOptWord(s, AfterMany(s, AfterLit(s, {1}, "enum"), "s", 1), "class"),
        "w", 1), "s", 0), {"{", ";"}) # {}

\* ^(static\s+)?(inline\s+)?(const\s+)?(\w+::)?(\w+)\s+(\w+)\s*\([^)]*\)\s*;
MatchFunction(s) ==
    LET quals  == AfterOptWord(s, AfterOptWord(s, AfterOptWord(s, {1},
                      "static"), "inline"), "const")
        scope  == quals \cup AfterLit(s, AfterMany(s, quals, "w", 1), "::")
        rtype  == AfterMany(s, scope, "w", 1)
        name   == AfterMany(s, AfterMany(s, rtype, "s", 1), "w", 1)
        params == AfterLit(s, AfterMany(s,
                      AfterLit(s, AfterMany(s, name, "s", 0), "("),
                      "notparen", 0), ")")
    IN  AfterLit(s, AfterMany(s, params, "s", 0), ";") # {}

\* ^using\s+\w+\s*=
MatchUsing(s) ==
    AfterLit(s, AfterMany(s, AfterMany(s, AfterMany(s,
        AfterLit(s, {1}, "using"), "s", 1), "w", 1), "s", 0), "=") # {}

\* ^typedef\s+
MatchTypedef(s) == AfterMany(s, AfterLit(s, {1}, "typedef"), "s", 1) # {}

\* ^namespace\s+\w+\s*{
MatchNamespace(s) ==
    AfterLit(s, AfterMany(s, AfterMany(s, AfterMany(s,
        AfterLit(s, {1}, "namespace"), "s", 1), "w", 1), "s", 0), "{") # {}

\* declaration_patterns, in the order of the list
declaration_patterns(s) ==
    << MatchClass(s), MatchStruct(s), MatchEnum(s),
       MatchFunction(s), MatchUsing(s), MatchTypedef(s) >>

\* str.strip(): from the first to the last character that is no whitespace
Strip(s) ==
    LET K == { i \in 1..Len(s) : ~IsSpace(Char(s, i)) }
    IN  IF K = {} THEN "" ELSE SubSeq(s, Least(K), Greatest(K))

\* the slice s[:n]
Prefix(s, n) == IF Len(s) <= n THEN s ELSE SubSeq(s, 1, n)

\* the 80 of stripped[:80]
TRUNCATE == 80

(***************************************************************************)
(* find_declarations_in_source.  acc is [results, in_namespace,            *)
(* namespace_depth].                                                       *)
(***************************************************************************)
\* lines 136-142: the loop over the patterns from the k-th on; TRUE when
\* the line is appended to the results
\* the loop with a test that passes over the lines holding both braces
RECURSIVE DeclarationFromBothBraces(_, _, _)
DeclarationFromBothBraces(stripped, matched, k) ==
    IF k > Len(matched) THEN FALSE
    ELSE IF matched[k]
         THEN IF Contains(stripped, "{") /\ Contains(stripped, "}")
              THEN DeclarationFromBothBraces(stripped, matched, k + 1)
              ELSE TRUE
         ELSE DeclarationFromBothBraces(stripped, matched, k + 1)

RECURSIVE DeclarationFrom(_, _, _)
DeclarationFrom(stripped, matched, k) ==
    IF k > Len(matched) THEN FALSE
    ELSE IF matched[k]
         THEN IF Contains(stripped, "{") /\ ~Contains(stripped, "}")
              THEN DeclarationFrom(stripped, matched, k + 1)
              ELSE TRUE
         ELSE DeclarationFrom(stripped, matched, k + 1)

IsDeclaration(stripped) ==
    DeclarationFrom(stripped, declaration_patterns(stripped), 1)

\* lines 124-142: one line
ScanLine(line, line_num, acc) ==
    LET stripped == Strip(line)
        opened   == MatchNamespace(stripped)
        in1      == acc.in_namespace \/ opened
        depth1   == IF opened THEN acc.namespace_depth + 1
                    ELSE acc.namespace_depth
        closed   == stripped = "}" /\ in1
        depth2   == IF closed THEN depth1 - 1 ELSE depth1
        in2      == IF closed /\ depth2 = 0 THEN FALSE ELSE in1
    IN  [results |->
            IF IsDeclaration(stripped)
            THEN Append(acc.results,
                        [line_num |-> line_num,
                         text     |-> Prefix(stripped, TRUNCATE)])
            ELSE acc.results,
         in_namespace    |-> in2,
         namespace_depth |-> depth2]

RECURSIVE ScanLines(_, _)
ScanLines(lines, k) ==
    IF k = 0
    THEN [results |-> << >>, in_namespace |-> FALSE, namespace_depth |-> 0]
    ELSE ScanLine(lines[k], k, ScanLines(lines, k - 1))

find_declarations_in_source(content) ==
    LET lines == Split(content) IN ScanLines(lines, Len(lines)).results

(***************************************************************************)
(* Paths.  A path is the tuple of its parts (Path.parts); the last part is *)
(* the file's name.                                                        *)
(***************************************************************************)
SKIP_DIRS == { "vendor", "build", "deps", ".git", "__pycache__" }

SKIP_FILES == { "types.h", "constants.h" }

PathName(parts) == parts[Len(parts)]

\* Path.suffix: the name from its last dot on
RECURSIVE SuffixFrom(_, _)
SuffixFrom(name, i) ==
    IF i <= 1 THEN ""
    ELSE IF Char(name, i) = "."
         THEN (IF i = Len(name) THEN "" ELSE SubSeq(name, i, Len(name)))
         ELSE SuffixFrom(name, i - 1)

Suffix(parts) == SuffixFrom(PathName(parts), Len(PathName(parts)))

should_skip_file(parts) ==
    \/ \E k \in 1..Len(parts) : parts[k] \in SKIP_DIRS
    \/ PathName(parts) \in SKIP_FILES

\* the files a tree can hold, in the order rglob yields them
FilePaths ==
    << << "/", "repo", "src", "main.cpp" >>,
       << "/", "repo", "vendor", "lib.cpp" >>,
       << "/", "repo", "src", "util.c" >>,
       << "/", "repo", "include", "types.h" >> >>

(***************************************************************************)
(* Path.read_text: the decoded text with universal newlines, "\r\n" and    *)
(* "\r" read as "\n".                                                      *)
(***************************************************************************)
RECURSIVE ReadFrom(_, _)
ReadFrom(bytes, i) ==
    LET R == { j \in i..Len(bytes) : Char(bytes, j) = "\r" }
    IN  IF R = {} THEN SubSeq(bytes, i, Len(bytes))
        ELSE SubSeq(bytes, i, Least(R) - 1) \o "\n"
             \o ReadFrom(bytes, IF Char(bytes, Least(R) + 1) = "\n"
                                THEN Least(R) + 2 ELSE Least(R) + 1)

ReadText(bytes) == ReadFrom(bytes, 1)

(***************************************************************************)
(* find_missing_namespace and analyze_file                                 *)
(***************************************************************************)
find_missing_namespace(content, parts) ==
    IF /\ ~Contains(content, "namespace cforge")
       /\ Suffix(parts) \in { ".cpp", ".hpp" }
       /\ \/ Contains(content, "#include \"cforge/")
          \/ Contains(content, "#include \"core/")
    THEN << "File may need cforge namespace" >>
    ELSE << >>

\* analyze_file once the text is read
Analysis(content, parts) ==
    LET source == Suffix(parts) \in { ".cpp", ".c" }
    IN  [error                  |-> FALSE,
         bare_types             |-> IF source THEN find_bare_types(content) ELSE << >>,
         declarations_in_source |-> IF source THEN find_declarations_in_source(content)
                                    ELSE << >>,
         namespace_issues       |-> find_missing_namespace(content, parts)]

AnalysisError ==
    [error |-> TRUE, bare_types |-> << >>, declarations_in_source |-> << >>,
     namespace_issues |-> << >>]

(***************************************************************************)
(* The state of a run of main().                                           *)
(***************************************************************************)
VARIABLES
    tree,           \* the files under the root: index into FilePaths ->
                    \*   [fault, bytes]; fault is "none", "io" (the file cannot
                    \*   be read) or "decode" (its bytes are not UTF-8)
    args,           \* the parsed command line: [analyze, replace_types, dry_run]
    pc,             \* "idle", "analyze" or "replace": the branch main() is in
    work,           \* the files the loops have still to visit, in order
    total_changes,  \* main's total_changes
    results,        \* analyze_codebase's results: file -> analysis
    output,         \* what the run printed last
    calls,          \* history: the calls of replace_types_in_file of this run
    before,         \* history: the tree when the run started
    rewritten,      \* history: an apply-mode run over this tree has completed
    rerun           \* history: this run started after such a run had completed

vars == << tree, args, pc, work, total_changes, results, output, calls,
           before, rewritten, rerun >>

Files == DOMAIN tree

\* root.rglob(ext) for each ext in turn
RECURSIVE Discover(_, _, _)
Discover(t, exts, k) ==
    IF k > Len(exts) THEN << >>
    ELSE SelectSeq([i \in 1..Len(FilePaths) |-> i],
                   LAMBDA f : f \in DOMAIN t /\ Suffix(FilePaths[f]) = exts[k])
         \o Discover(t, exts, k + 1)

Range(seq) == { seq[i] : i \in 1..Len(seq) }

RECURSIVE SumOver(_, _)
SumOver(f, S) ==
    IF S = {} THEN 0
    ELSE LET x == CHOOSE y \in S : TRUE IN f[x] + SumOver(f, S \ {x})

\* print_report's summary
Report(res) ==
    LET ok     == { f \in DOMAIN res : ~res[f].error }
        issues == { f \in ok : \/ Len(res[f].bare_types) > 0
                               \/ Len(res[f].declarations_in_source) > 0
                               \/ Len(res[f].namespace_issues) > 0 }
    IN  [kind              |-> "report",
         files_analyzed    |-> Cardinality(DOMAIN res),
         files_with_issues |-> Cardinality(issues),
         bare_types        |-> SumOver([f \in ok |-> Len(res[f].bare_types)], ok),
         declarations      |-> SumOver([f \in ok |-> Len(res[f].declarations_in_source)], ok),
         namespace         |-> SumOver([f \in ok |-> Len(res[f].namespace_issues)], ok)]

NoResults == [f \in {} |-> AnalysisError]

\* the state main() starts from, for a set of trees and of command lines
InitWith(Trees, Args) ==
    /\ tree \in Trees
    /\ args \in Args
    /\ pc = "idle"
    /\ work = << >>
    /\ total_changes = 0
    /\ results = NoResults
    /\ output = [kind |-> "none"]
    /\ calls = << >>
    /\ before = tree
    /\ rewritten = FALSE
    /\ rerun = FALSE

(***************************************************************************)
(* main()                                                                  *)
(***************************************************************************)
\* lines 306-307: --analyze
StartAnalyze ==
    /\ pc = "idle"
    /\ args.analyze
    /\ pc' = "analyze"
    /\ work' = Discover(tree, << ".cpp", ".c", ".hpp", ".h" >>, 1)
    /\ results' = NoResults
    /\ calls' = << >>
    /\ before' = tree
    /\ rerun' = rewritten
    /\ UNCHANGED << tree, args, total_changes, output, rewritten >>

\* lines 309-310: --replace-types
StartReplace ==
    /\ pc = "idle"
    /\ ~args.analyze
    /\ args.replace_types
    /\ pc' = "replace"
    /\ work' = Discover(tree, << ".cpp", ".c" >>, 1)
    /\ total_changes' = 0
    /\ calls' = << >>
    /\ before' = tree
    /\ rerun' = rewritten
    /\ UNCHANGED << tree, args, results, output, rewritten >>

\* lines 318-319: neither
PrintHelp ==
    /\ pc = "idle"
    /\ ~args.analyze
    /\ ~args.replace_types
    /\ output' = [kind |-> "help"]
    /\ UNCHANGED << tree, args, pc, work, total_changes, results, calls,
                    before, rewritten, rerun >>

\* lines 188-189 and 313-314: should_skip_file
SkipFile ==
    /\ pc \in { "analyze", "replace" }
    /\ work # << >>
    /\ should_skip_file(FilePaths[Head(work)])
    /\ work' = Tail(work)
    /\ UNCHANGED << tree, args, pc, total_changes, results, output, calls,
                    before, rewritten, rerun >>

\* analyze_file: read_text(errors='ignore') leaves undecodable bytes out
AnalyzeFile ==
    /\ pc = "analyze"
    /\ work # << >>
    /\ LET f == Head(work) IN
        /\ ~should_skip_file(FilePaths[f])
        /\ tree[f].fault # "io"
        /\ results' = [g \in DOMAIN results \cup {f} |->
                          IF g = f
                          THEN Analysis(ReadText(tree[f].bytes), FilePaths[f])
                          ELSE results[g]]
    /\ work' = Tail(work)
    /\ UNCHANGED << tree, args, pc, total_changes, output, calls, before,
                    rewritten, rerun >>

\* analyze_file, lines 163-164
AnalyzeFileError ==
    /\ pc = "analyze"
    /\ work # << >>
    /\ LET f == Head(work) IN
        /\ ~should_skip_file(FilePaths[f])
        /\ tree[f].fault = "io"
        /\ results' = [g \in DOMAIN results \cup {f} |->
                          IF g = f THEN AnalysisError ELSE results[g]]
    /\ work' = Tail(work)
    /\ UNCHANGED << tree, args, pc, total_changes, output, calls, before,
                    rewritten, rerun >>

\* a test that leaves dry_run out
ShouldWriteInPreview(changes, dry_run) == changes > 0

\* lines 284 and 286: the file is written
ShouldWrite(changes, dry_run) == changes > 0 /\ ~dry_run

\* replace_types_in_file on a file that reads, and line 316
ReplaceFile ==
    /\ pc = "replace"
    /\ work # << >>
    /\ LET f       == Head(work)
           content == ReadText(tree[f].bytes)
           r       == RewriteContent(content)
           write   == ShouldWrite(r.changes, args.dry_run)
       IN
        /\ ~should_skip_file(FilePaths[f])
        /\ tree[f].fault = "none"
        /\ tree' = IF write
                   THEN [tree EXCEPT ![f].bytes = r.new_content]
                   ELSE tree
        /\ total_changes' = total_changes + r.changes
        /\ calls' = Append(calls, [file |-> f, error |-> FALSE,
                                   content |-> content,
                                   new_content |-> r.new_content,
                                   changes |-> r.changes, wrote |-> write])
    /\ work' = Tail(work)
    /\ UNCHANGED << args, pc, results, output, before, rewritten, rerun >>

\* a read failure that ends the loop over the files
ReplaceFileErrorEndsRun ==
    /\ pc = "replace"
    /\ work # << >>
    /\ LET f == Head(work) IN
        /\ ~should_skip_file(FilePaths[f])
        /\ tree[f].fault # "none"
        /\ total_changes' = total_changes + 0
        /\ calls' = Append(calls, [file |-> f, error |-> TRUE,
                                   content |-> "", new_content |-> "",
                                   changes |-> 0, wrote |-> FALSE])
    /\ work' = << >>
    /\ UNCHANGED << tree, args, pc, results, output, before, rewritten,
                    rerun >>

\* replace_types_in_file, lines 254-256, and line 316
ReplaceFileError ==
    /\ pc = "replace"
    /\ work # << >>
    /\ LET f == Head(work) IN
        /\ ~should_skip_file(FilePaths[f])
        /\ tree[f].fault # "none"
        /\ total_changes' = total_changes + 0
        /\ calls' = Append(calls, [file |-> f, error |-> TRUE,
                                   content |-> "", new_content |-> "",
                                   changes |-> 0, wrote |-> FALSE])
    /\ work' = Tail(work)
    /\ UNCHANGED << tree, args, pc, results, output, before, rewritten,
                    rerun >>

\* line 308: print_report
FinishAnalyze ==
    /\ pc = "analyze"
    /\ work = << >>
    /\ output' = Report(results)
    /\ pc' = "idle"
    /\ UNCHANGED << tree, args, work, total_changes, results, calls, before,
                    rewritten, rerun >>

\* line 317: the total is printed
FinishReplace ==
    /\ pc = "replace"
    /\ work = << >>
    /\ output' = [kind |-> "total", total_changes |-> total_changes]
    /\ pc' = "idle"
    /\ rewritten' = (rewritten \/ ~args.dry_run)
    /\ UNCHANGED << tree, args, work, total_changes, results, calls, before,
                    rerun >>

Next ==
    \/ StartAnalyze
    \/ StartReplace
    \/ PrintHelp
    \/ SkipFile
    \/ AnalyzeFile
    \/ AnalyzeFileError
    \/ ReplaceFile
    \/ ReplaceFileError
    \/ FinishAnalyze
    \/ FinishReplace

(***************************************************************************)
(* The trees and command lines the runs start from.                        *)
(***************************************************************************)
MaxFiles == 2

AllArgs == [analyze : BOOLEAN, replace_types : BOOLEAN, dry_run : BOOLEAN]

SampleBytes ==
    { "unsigned char buf[size_t(10)];\nint a; int b;\n",
      "#include \"core/x.h\"\r\nstd::vector<int> v;\r\nclass Bar {};\r\n",
      "long double f(int);\ntemplate<int N> struct Foo;\n" }

SampleFiles ==
    [fault : {"none"}, bytes : SampleBytes]
        \cup [fault : {"io", "decode"}, bytes : {"int x;\n"}]

TreesOver(files) ==
    UNION { [D -> files] : D \in { E \in SUBSET (1..Len(FilePaths)) :
                                     E # {} /\ Cardinality(E) <= MaxFiles } }

Init == InitWith(TreesOver(SampleFiles), AllArgs)

Spec == Init /\ [][Next]_vars

(***************************************************************************)
(* Runs over a tree of one readable source file whose text is put together *)
(* from at most MaxTokens pieces of a vocabulary, or is one of a list of   *)
(* examples.                                                               *)
(***************************************************************************)
MaxTokens == 3

RECURSIVE Concats(_, _)
Concats(vocab, n) ==
    IF n = 0 THEN { "" }
    ELSE { a \o b : a \in vocab, b \in Concats(vocab, n - 1) }

TextsOver(vocab, n) == UNION { Concats(vocab, k) : k \in 1..n }

OneFileTrees(texts) ==
    { [f \in {1} |-> [fault |-> "none", bytes |-> t]] : t \in texts }

AnalyzeArgs == { [analyze |-> TRUE, replace_types |-> FALSE, dry_run |-> FALSE] }

ApplyArgs == { [analyze |-> FALSE, replace_types |-> TRUE, dry_run |-> FALSE] }

ReplaceArgs == [analyze : {FALSE}, replace_types : {TRUE}, dry_run : BOOLEAN]

NextReplace ==
    \/ StartReplace
    \/ ReplaceFile
    \/ FinishReplace

NextAnalyze ==
    \/ StartAnalyze
    \/ AnalyzeFile
    \/ FinishAnalyze

NextBoth ==
    \/ StartAnalyze
    \/ AnalyzeFile
    \/ FinishAnalyze
    \/ StartReplace
    \/ ReplaceFile
    \/ FinishReplace

\* lines that carry the markers of SKIP_PATTERNS, with and without types
SkipVocab ==
    { "#include ", "#define ", "typedef ", "using ", "using", "static_cast<",
      "dynamic_cast<", "reinterpret_cast<", "const_cast<", "std::", "fmt::",
      "toml::", "cforge_", "int ", "long long ", "\t", "\n" }

MaxSkipTokens == 2

InitSkip ==
    InitWith(OneFileTrees(TextsOver(SkipVocab, MaxSkipTokens)
                            \cup { "std::vector<int> v;",
                                   "int a;\ntypedef int x;\nusing\tlong long;" }),
             ApplyArgs)

SpecSkip == InitSkip /\ [][NextReplace]_vars

\* template argument lists
TemplateVocab == { "<", ">", "int", " ", "Foo", ";" }

InitTemplate ==
    InitWith(OneFileTrees(TextsOver(TemplateVocab, MaxTokens)
                            \cup { "template<int N> struct Foo;",
                                   "Foo<int> a; Bar<int" }),
             AnalyzeArgs \cup ApplyArgs)

SpecTemplate == InitTemplate /\ [][NextBoth]_vars

\* the words the type patterns are made of
TypeVocab ==
    { "unsigned ", "signed ", "long ", "int ", "double ", "\n" }

InitTypes ==
    InitWith(OneFileTrees(TextsOver(TypeVocab, MaxTokens)
                            \cup { "unsigned long long x;",
                                   "unsigned char buf[size_t(10)];",
                                   "int a; int b;" }),
             ApplyArgs)

SpecTypes == InitTypes /\ [][NextReplace]_vars

\* texts of several lines, some of them skipped
IdemVocab == { "int ", "long ", "unsigned ", "std::", ";", "\n" }

InitIdem ==
    InitWith(OneFileTrees(TextsOver(IdemVocab, MaxTokens)
                            \cup { "unsigned char buf[size_t(10)];\nint a; int b;\n" }),
             ReplaceArgs)

SpecIdem == InitIdem /\ [][NextReplace]_vars

\* type names inside and beside identifiers
WordVocab == { "int", "long long", "printf_", "_t", "x", "9", " " }

InitWord ==
    InitWith(OneFileTrees(TextsOver(WordVocab, MaxTokens)
                            \cup { "printf_int_handler",
                                   "int printf_int_handler(int x9);" }),
             AnalyzeArgs \cup ApplyArgs)

SpecWord == InitWord /\ [][NextBoth]_vars

\* declarations, with and without braces
DeclVocab ==
    { "class A", "enum class E", "struct B", "{", "}", ";", " ", "\n" }

LongName ==
    "a_name_that_is_long_enough_to_take_the_line_past_eighty_characters_when_it_is_declared"

DeclExamples ==
    { "class Foo {};", "class Foo {", "  class A;\t", "typedef int x;",
      "using X = int;", "int f(int a);", "static inline const A::B f ( ) ;",
      "enum E { a, b };", "int f(int a) {", "int f(int a) { return a; }",
      "class " \o LongName \o " ;",
      "namespace n {\nclass A;\n}\nclass B {\n};\nclass C {};" }

InitDecl ==
    InitWith(OneFileTrees(TextsOver(DeclVocab, MaxTokens) \cup DeclExamples),
             AnalyzeArgs)

SpecDecl == InitDecl /\ [][NextAnalyze]_vars

(***************************************************************************)
(* What the properties below speak of.                                     *)
(***************************************************************************)
\* the calls of replace_types_in_file of this run that read their file
Rewrites == { n \in 1..Len(calls) : ~calls[n].error }

\* the markers that exempt a line, as the specification lists them
SkipMarkers ==
    { "#include", "#define", "typedef", "static_cast<", "dynamic_cast<",
      "reinterpret_cast<", "const_cast<", "std::", "fmt::", "toml::", "cforge_" }

HasSkipMarker(line) ==
    \/ \E m \in SkipMarkers : Contains(line, m)
    \/ \E i \in 1..Len(line) :
          LitAt("using", line, i) /\ Char(line, i + 5) \in SpaceChars

\* some primitive type is written on the line as a word of its own
HasType(line) ==
    \E k \in 1..Len(TYPE_MAPPINGS) : TypeSearch(TYPE_MAPPINGS[k].text, line)

WithoutMarker(line) == ~HasSkipMarker(line)

(***************************************************************************)
(* C1.  A line that contains a skip marker comes out of the rewrite as it  *)
(* went in, whatever types are written on it, and adds nothing to the      *)
(* change counter: the counter is the one of the text without those lines. *)
(* "std::vector<int> v;" stays as it is, with zero changes.                *)
(***************************************************************************)
SkippedLinesUntouched ==
    \A n \in Rewrites :
        LET c     == calls[n]
            lines == Split(c.content)
            out   == Split(c.new_content)
        IN  /\ Len(out) = Len(lines)
            /\ \A k \in 1..Len(lines) :
                  HasSkipMarker(lines[k]) => out[k] = lines[k]
            /\ c.changes =
                  RewriteContent(Join(SelectSeq(lines, WithoutMarker))).changes
            /\ c.content = "std::vector<int> v;"
                  => c.new_content = c.content /\ c.changes = 0

\* a skipped line with a type on it, beside a line that was rewritten
SkippedLineWithType ==
    \E n \in Rewrites :
        LET lines == Split(calls[n].content)
        IN  /\ calls[n].changes > 0
            /\ \E k \in 1..Len(lines) :
                  HasSkipMarker(lines[k]) /\ HasType(lines[k])

\* the files the analysis has read
Analysed == { f \in DOMAIN results : ~results[f].error }

\* the text in front of index i holds a "<" with no ">" behind it: index i
\* lies in a template argument list that is still open
InOpenTemplate(line, i) ==
    \E j \in 1..(i - 1) :
        /\ Char(line, j) = "<"
        /\ \A k \in (j + 1)..(i - 1) : Char(line, k) # ">"

\* the indices at which some type pattern matches on the line
TypeMatches(line) ==
    { i \in 1..Len(line) :
        \E k \in 1..Len(TYPE_MAPPINGS) : TypeMatchAt(TYPE_MAPPINGS[k].text, line, i) }

(***************************************************************************)
(* C2.  The rewrite leaves alone a type that stands in an open template    *)
(* argument list: a line without skip marker whose type matches all have   *)
(* an unclosed "<" in front of them comes out as it went in, and so does   *)
(* "template<int N> struct Foo;", with zero changes.                       *)
(***************************************************************************)
TemplateArgumentsKept ==
    \A n \in Rewrites :
        LET c     == calls[n]
            lines == Split(c.content)
            out   == Split(c.new_content)
        IN  /\ \A k \in 1..Len(lines) :
                  (/\ ~HasSkipMarker(lines[k])
                   /\ \A i \in TypeMatches(lines[k]) : InOpenTemplate(lines[k], i))
                  => out[k] = lines[k]
            /\ c.content = "template<int N> struct Foo;"
                  => c.new_content = c.content /\ c.changes = 0

Reported(f, k, text, i) ==
    \E e \in 1..Len(results[f].bare_types) :
        LET o == results[f].bare_types[e]
        IN  o.line_num = k /\ o.match = text /\ o.start = i

(***************************************************************************)
(* C9.  find_bare_types drops a match on a line without skip marker        *)
(* exactly when it stands in an open template argument list, also when a   *)
(* closed "<...>" pair or a stray ">" comes before the open "<"; every     *)
(* other match is reported (the alias guard never fires on such a line).   *)
(***************************************************************************)
OpenTemplateRejectedExactly ==
    \A f \in Analysed :
        LET lines == Split(ReadText(tree[f].bytes))
        IN  \A k \in 1..Len(lines) :
                ~HasSkipMarker(lines[k]) =>
                    \A m \in 1..Len(TYPE_MAPPINGS) :
                        LET text == TYPE_MAPPINGS[m].text
                        IN  \A i \in Range(Finditer(text, lines[k])) :
                                Reported(f, k, text, i)
                                    <=> ~InOpenTemplate(lines[k], i)

(***************************************************************************)
(* C3.  The rewrite is idempotent.  Run on the content a first run         *)
(* produced, it counts 0 changes and gives the same content back: a line   *)
(* the first run changed now holds "cforge_".  So an apply-mode run that   *)
(* follows a completed apply-mode run finds 0 changes, writes no file and  *)
(* prints a total of 0.                                                    *)
(***************************************************************************)
RewriteIsIdempotent ==
    /\ \A n \in Rewrites :
          LET c     == calls[n]
              lines == Split(c.content)
              out   == Split(c.new_content)
              again == RewriteContent(c.new_content)
          IN  /\ again.changes = 0
              /\ again.new_content = c.new_content
              /\ \A k \in 1..Len(lines) :
                    out[k] # lines[k] => Contains(out[k], "cforge_")
    /\ (rerun /\ ~args.dry_run) =>
          /\ total_changes = 0
          /\ tree = before
          /\ \A n \in 1..Len(calls) : calls[n].changes = 0 /\ ~calls[n].wrote
          /\ pc = "idle" => output = [kind |-> "total", total_changes |-> 0]

\* a second apply-mode run has ended on a text the first one rewrote in
\* part: it holds a rewritten line and a line skipped from the start
SecondRunOverRewrittenText ==
    /\ rerun
    /\ ~args.dry_run
    /\ pc = "idle"
    /\ \E n \in Rewrites :
          /\ Contains(calls[n].content, "cforge_")
          /\ Contains(calls[n].content, "std::")

MappingIndex(m) == CHOOSE i \in 1..Len(TYPE_MAPPINGS) : TYPE_MAPPINGS[i] = m

\* the line after the first j patterns of sorted_mappings have had their turn
LineAfter(line, j) ==
    ApplyMappings(SubSeq(sorted_mappings, 1, j), 1,
                  [line |-> line, changes |-> 0]).line

(***************************************************************************)
(* C4.  The patterns are applied longest first, patterns of equal length   *)
(* in the order of TYPE_MAPPINGS.  When a pattern's text is part of a      *)
(* longer pattern's, no text of the line matches the longer pattern any    *)
(* more at the time the shorter one is applied.  "unsigned long long x;"   *)
(* becomes "cforge_ulong_t x;".                                            *)
(***************************************************************************)
LongestPatternFirst ==
    /\ Range(sorted_mappings) = Range(TYPE_MAPPINGS)
    /\ Len(sorted_mappings) = Len(TYPE_MAPPINGS)
    /\ \A a, b \in 1..Len(sorted_mappings) :
          a < b =>
            \/ PatternLen(sorted_mappings[a]) > PatternLen(sorted_mappings[b])
            \/ /\ PatternLen(sorted_mappings[a]) = PatternLen(sorted_mappings[b])
               /\ MappingIndex(sorted_mappings[a]) < MappingIndex(sorted_mappings[b])
    /\ \A n \in Rewrites :
          LET c     == calls[n]
              lines == Split(c.content)
          IN  /\ \A k \in 1..Len(lines) :
                    ~HasSkipMarker(lines[k]) =>
                        \A j, l \in 1..Len(sorted_mappings) :
                            (/\ l # j
                             /\ Contains(sorted_mappings[l].text,
                                         sorted_mappings[j].text))
                            => ~TypeSearch(sorted_mappings[l].text,
                                           LineAfter(lines[k], j - 1))
              /\ c.content = "unsigned long long x;"
                    => c.new_content = "cforge_ulong_t x;"

\* "unsigned long long" has been rewritten as a whole
CompoundTypeRewritten ==
    \E n \in Rewrites :
        /\ Contains(calls[n].content, "unsigned long long ")
        /\ Contains(calls[n].new_content, "cforge_ulong_t ")
        /\ ~Contains(calls[n].new_content, "long ")

\* the line after the substitutions of the first j patterns, longest first
RECURSIVE Substituted(_, _)
Substituted(line, j) ==
    IF j = 0 THEN line
    ELSE Sub(sorted_mappings[j].text, sorted_mappings[j].repl,
             Substituted(line, j - 1))

AlteringPatterns(line) ==
    IF HasSkipMarker(line) THEN {}
    ELSE { j \in 1..Len(sorted_mappings) :
             Substituted(line, j) # Substituted(line, j - 1) }

RECURSIVE AlteringPairs(_, _)
AlteringPairs(lines, k) ==
    IF k = 0 THEN 0
    ELSE AlteringPairs(lines, k - 1) + Cardinality(AlteringPatterns(lines[k]))

(***************************************************************************)
(* C5.  The change counter is the number of pairs of a line and a pattern  *)
(* whose substitution altered the line, not the number of occurrences      *)
(* replaced; the line is tested for skip markers once, as it was read, and *)
(* every pattern has its turn after that.  "unsigned char buf[size_t(10)];"*)
(* gives 2 changes, "int a; int b;" gives 1.                               *)
(***************************************************************************)
ChangesCountLinePatternPairs ==
    \A n \in Rewrites :
        LET c     == calls[n]
            lines == Split(c.content)
        IN  /\ c.changes = AlteringPairs(lines, Len(lines))
            /\ c.content = "unsigned char buf[size_t(10)];"
                  => /\ c.new_content = "cforge_byte_t buf[cforge_size_t(10)];"
                     /\ c.changes = 2
            /\ c.content = "int a; int b;"
                  => /\ c.new_content = "cforge_int_t a; cforge_int_t b;"
                     /\ c.changes = 1

\* one pattern replaced twice on a line and a second pattern once
SeveralOccurrencesOnALine ==
    \E n \in Rewrites :
        LET lines == Split(calls[n].content)
        IN  /\ Len(lines) = 1
            /\ Len(Finditer("int", lines[1])) = 2
            /\ Len(Finditer("double", lines[1])) = 1
            /\ calls[n].changes = 2

(***************************************************************************)
(* C6.  replace_types_in_file writes the file if and only if the run is in *)
(* apply mode and the file's change count is above 0: a preview run leaves *)
(* every file as it was, and so does an apply-mode run for a file with 0   *)
(* changes; a file with changes holds the new content after an apply-mode  *)
(* run.                                                                    *)
(***************************************************************************)
WrittenIffApplyAndChanged ==
    /\ DOMAIN tree = DOMAIN before
    /\ \A f \in DOMAIN tree :
          tree[f] # before[f] =>
              /\ ~args.dry_run
              /\ \E n \in Rewrites : calls[n].file = f /\ calls[n].changes > 0
    /\ \A n \in Rewrites :
          LET c == calls[n]
          IN  (~args.dry_run /\ c.changes > 0) =>
                  /\ tree[c.file].bytes = c.new_content
                  /\ tree[c.file].bytes # before[c.file].bytes

\* an apply-mode run has rewritten one file and passed over another with 0
\* changes
OneFileWrittenOneKept ==
    /\ ~args.dry_run
    /\ \E n, m \in Rewrites :
          /\ calls[n].changes > 0
          /\ tree[calls[n].file] # before[calls[n].file]
          /\ calls[m].changes = 0
          /\ tree[calls[m].file] = before[calls[m].file]

\* the files a replace-types run is to process
ToProcess(t) ==
    { f \in DOMAIN t : /\ Suffix(FilePaths[f]) \in { ".cpp", ".c" }
                       /\ ~should_skip_file(FilePaths[f]) }

(***************************************************************************)
(* C7.  A file that cannot be read is passed over: it adds 0 to the total, *)
(* it is not written, and the files behind it are processed all the same.  *)
(* The total printed at the end is the sum of the change counts of the     *)
(* files that could be read.                                               *)
(***************************************************************************)
ReadFailurePassedOver ==
    (pc = "idle" /\ output.kind = "total") =>
        LET todo     == ToProcess(before)
            readable == { f \in todo : before[f].fault = "none" }
        IN  /\ { calls[n].file : n \in 1..Len(calls) } = todo
            /\ Len(calls) = Cardinality(todo)
            /\ \A n \in 1..Len(calls) :
                  LET c == calls[n]
                  IN  /\ c.error <=> c.file \notin readable
                      /\ c.error => c.changes = 0 /\ tree[c.file] = before[c.file]
            /\ output.total_changes =
                  SumOver([f \in readable |->
                              RewriteContent(ReadText(before[f].bytes)).changes],
                          readable)

\* a run has ended in which a file that could not be read came before a
\* file with changes
FailureBeforeChangedFile ==
    /\ pc = "idle"
    /\ output.kind = "total"
    /\ output.total_changes > 0
    /\ \E n, m \in 1..Len(calls) :
          n < m /\ calls[n].error /\ calls[m].changes > 0

IsIdentifier(line) ==
    /\ Len(line) > 0
    /\ \A i \in 1..Len(line) : Char(line, i) \in WordChars

IsTypeText(line) ==
    \E k \in 1..Len(TYPE_MAPPINGS) : TYPE_MAPPINGS[k].text = line

\* an alias stands at index i of the line, with no word character around it
AliasStandsAlone(line, i) ==
    /\ Char(line, i - 1) \notin WordChars
    /\ \E k \in 1..Len(TYPE_MAPPINGS) :
          LET repl == TYPE_MAPPINGS[k].repl
          IN  LitAt(repl, line, i) /\ Char(line, i + Len(repl)) \notin WordChars

(***************************************************************************)
(* C8.  A type pattern never matches inside a longer identifier.  A match  *)
(* find_bare_types reports has no letter, digit or underscore right in     *)
(* front of it or right behind it.  The rewrite puts an alias only where   *)
(* such a match stood: on a line without skip marker every alias of the    *)
(* output has no letter, digit or underscore next to it, and a line that   *)
(* is one identifier, not itself a type, is reported nowhere and comes out *)
(* as it went in.  "printf_int_handler" gives zero occurrences and zero    *)
(* changes.                                                                *)
(***************************************************************************)
TypesMatchWholeWordsOnly ==
    /\ \A f \in Analysed :
          LET lines == Split(ReadText(tree[f].bytes))
              found == results[f].bare_types
          IN  /\ \A e \in 1..Len(found) :
                    LET o    == found[e]
                        line == lines[o.line_num]
                    IN  /\ LitAt(o.match, line, o.start)
                        /\ Char(line, o.start - 1) \notin WordChars
                        /\ Char(line, o.start + Len(o.match)) \notin WordChars
              /\ \A k \in 1..Len(lines) :
                    (IsIdentifier(lines[k]) /\ ~IsTypeText(lines[k]))
                    => \A e \in 1..Len(found) : found[e].line_num # k
              /\ tree[f].bytes = "printf_int_handler" => found = << >>
    /\ \A n \in Rewrites :
          LET c     == calls[n]
              lines == Split(c.content)
              out   == Split(c.new_content)
          IN  /\ \A k \in 1..Len(lines) :
                    /\ ~HasSkipMarker(lines[k]) =>
                          \A i \in 1..Len(out[k]) :
                              LitAt("cforge_", out[k], i)
                                  => AliasStandsAlone(out[k], i)
                    /\ (IsIdentifier(lines[k]) /\ ~IsTypeText(lines[k]))
                          => out[k] = lines[k]
              /\ c.content = "printf_int_handler"
                    => c.new_content = c.content /\ c.changes = 0

\* the analysis has read a line that holds a type as a word of its own,
\* which it reports, and the same type inside an identifier, which it does
\* not
TypeInsideIdentifierPassedOver ==
    \E f \in Analysed :
        LET lines == Split(ReadText(tree[f].bytes))
            found == results[f].bare_types
        IN  /\ Len(found) > 0
            /\ \E i \in 1..Len(lines[1]) :
                  /\ LitAt("int", lines[1], i)
                  /\ Char(lines[1], i - 1) \in WordChars
                  /\ \A e \in 1..Len(found) : found[e].start # i

MatchesDeclaration(t) ==
    \E k \in 1..Len(declaration_patterns(t)) : declaration_patterns(t)[k]

OpenBraceOnly(t) == Contains(t, "{") /\ ~Contains(t, "}")

BothBraces(t) == Contains(t, "{") /\ Contains(t, "}")

\* the trimmed line t is to be reported, by either reading of the brace test
Kept(t, bothExcluded) ==
    /\ MatchesDeclaration(t)
    /\ ~(IF bothExcluded THEN BothBraces(t) ELSE OpenBraceOnly(t))

\* the entries are those of the lines to be reported, in the order of the
\* lines, each with its text cut to 80 characters
DeclarationsAre(bothExcluded) ==
    \A f \in Analysed :
        LET lines == Split(ReadText(tree[f].bytes))
            decls == results[f].declarations_in_source
        IN  /\ \A k \in 1..Len(lines) :
                  (\E e \in 1..Len(decls) : decls[e].line_num = k)
                      <=> Kept(Strip(lines[k]), bothExcluded)
            /\ \A e \in 1..Len(decls) :
                  LET t == Strip(lines[decls[e].line_num])
                  IN  /\ decls[e].line_num \in 1..Len(lines)
                      /\ Len(decls[e].text) = (IF Len(t) < 80 THEN Len(t) ELSE 80)
                      /\ LitAt(decls[e].text, t, 1)
            /\ \A d, e \in 1..Len(decls) :
                  d < e => decls[d].line_num < decls[e].line_num

=============================================================================
